---------------------------- MODULE Spec2Model ----------------------------
(***************************************************************************)
(* Event-study pipeline of project2_solution/task_project2.py.             *)
(*                                                                         *)
(* Dates are calendar days, counted from 2021-01-01 (day 0); a Timestamp   *)
(* is its day number, a Timedelta a number of days.  A table is a sequence *)
(* of records (one per row, in row order).  A float cell of a table is     *)
(* <<v>> when it holds the number v and <<>> when it is missing (NaN);     *)
(* returns are integers (basis points).  A mean or a proportion is an      *)
(* exact fraction <<numerator, denominator>> in lowest terms; float         *)
(* rounding is not modelled.  DataFrame.stack() drops missing cells, as it *)
(* does by default in the pandas versions the code is written for.  The    *)
(* index of a wide table holds each date once.                             *)
(***************************************************************************)
EXTENDS Integers, Sequences, FiniteSets, TLC

VARIABLES
    pc,                     \* which call of the run comes next
    events,                 \* expand_event_dates: the deal table (ma_info)
    valid_dates,            \* expand_event_dates: the DatetimeIndex given
    expanded_ma_info,       \* result of expand_event_dates / input of the rest
    stk_rets,               \* the wide daily return table
    buys,                   \* mk_buy_tgt_sell_acq_rets: date -> joined target rows
    sales,                  \* mk_buy_tgt_sell_acq_rets: date -> joined acquirer rows
    buy_tgt_sell_acq_rets,  \* result of mk_buy_tgt_sell_acq_rets
    tgt_rets_by_event_time, \* the event-time panel
    numerator,              \* mk_prop_positive_tgt_rets: per event time
    denominator,            \* mk_prop_positive_tgt_rets: per event time
    sample_proportions,     \* result of mk_prop_positive_tgt_rets
    ma_deals,               \* mk_ma_info: the raw deal records
    ma_info,                \* result of mk_ma_info
    stk_arets,              \* the long abnormal-return table
    buy_tgt_sell_mkt_rets,  \* result of mk_buy_tgt_sell_mkt_rets
    org_ff,                 \* the market-factor table
    long_rets,              \* wide_to_long_rets: the long return table
    expand_out,             \* expand_event_dates: its list out of frames
    runs                    \* the outputs of the runs made so far

vars == <<pc, events, valid_dates, expanded_ma_info, stk_rets, buys, sales,
          buy_tgt_sell_acq_rets, tgt_rets_by_event_time, numerator,
          denominator, sample_proportions, ma_deals, ma_info, stk_arets,
          buy_tgt_sell_mkt_rets, org_ff,
          long_rets, expand_out, runs>>

(***************************************************************************)
(* Bounds of the model.                                                    *)
(***************************************************************************)
MaxDeals == 2       \* rows of the deal table
MaxValidLen == 3    \* length of a sparse valid_dates index
MaxLo == 1          \* latest first day of a daily valid_dates range
MaxDay == 34        \* latest day of a daily valid_dates range

(***************************************************************************)
(* Values shared by the tables.                                            *)
(***************************************************************************)
Unset == <<>>                   \* a variable the run under study does not use
NaN == <<>>                     \* a missing float cell
Num(v) == <<v>>                 \* a float cell holding v
IsNa(c) == c = NaN
None == [tag |-> "None", rows |-> <<>>]
Frame(rows) == [tag |-> "DataFrame", rows |-> rows]

Range(s) == {s[i] : i \in DOMAIN s}

Reverse(s) == [i \in 1..Len(s) |-> s[Len(s) + 1 - i]]

RECURSIVE SeqsUpTo(_, _)
SeqsUpTo(S, n) ==
    IF n = 0 THEN {<<>>}
    ELSE LET shorter == SeqsUpTo(S, n - 1)
         IN  shorter \cup {Append(s, x) : s \in shorter, x \in S}

(***************************************************************************)
(* helpers.fmt_dt and the parse pandas applies to the label it is given.   *)
(***************************************************************************)
MonthDays == <<31, 28, 31, 30, 31, 30, 31, 31, 30, 31, 30, 31>>

RECURSIVE MonthStart(_)
MonthStart(m) == IF m = 1 THEN 0 ELSE MonthStart(m - 1) + MonthDays[m - 1]

\* strftime('%Y-%m-%d'): the text of the date as <<year, month, day of month>>
fmt_dt(date) ==
    LET m == CHOOSE k \in 1..12 :
                 MonthStart(k) <= date /\ date < MonthStart(k) + MonthDays[k]
    IN  <<2021, m, date - MonthStart(m) + 1>>

\* the day a 'YYYY-MM-DD' label names, as .loc parses it
ParseDt(label) == MonthStart(label[2]) + label[3] - 1

(***************************************************************************)
(* pandas Index operations used by expand_event_dates.                     *)
(***************************************************************************)
\* Index.drop_duplicates(): the first occurrence of each value is kept
DropDuplicates(s) ==
    LET first == SelectSeq([i \in DOMAIN s |-> i],
                           LAMBDA i : \A j \in 1..(i - 1) : s[j] # s[i])
    IN  [k \in DOMAIN first |-> s[first[k]]]

\* Index.sort_values(): ascending
SortValues(s) == SortSeq(s, LAMBDA a, b : a < b)

\* a slice that leaves its end label out, as a positional slice would
LocSliceHalfOpen(dates, start, end) ==
    LET left == ParseDt(start)
        right == ParseDt(end)
    IN  SelectSeq(dates, LAMBDA d : left <= d /\ d < right)

\* dates.loc[start:end] on a sorted index: both ends included
LocSlice(dates, start, end) ==
    LET left == ParseDt(start)
        right == ParseDt(end)
    IN  SelectSeq(dates, LAMBDA d : left <= d /\ d <= right)

(***************************************************************************)
(* expand_event_dates                                                      *)
(***************************************************************************)
td_start == 1
td_end == 30

\* the index sorted but with its repeated dates kept
ValidIndexNoDedup(valid) == SortValues(valid)

\* valid_dates.drop_duplicates().sort_values()
ValidIndex(valid) == SortValues(DropDuplicates(valid))

\* a window that starts on the announcement day itself
WindowIdxFromAnnouncement(dates, announce) ==
    LocSlice(dates, fmt_dt(announce), fmt_dt(announce + td_end))

\* the slice of the index taken for one event
WindowIdx(dates, announce) ==
    LocSlice(dates, fmt_dt(announce + td_start), fmt_dt(announce + td_end))

\* pd.DataFrame(data, index=window_idx).reset_index()
EventFrame(row, window_idx) ==
    [i \in DOMAIN window_idx |->
        [date |-> window_idx[i], announcement |-> row.announcement,
         dealno |-> row.dealno, acq |-> row.acq, tgt |-> row.tgt]]

\* the loop over events.iterrows(): the frames appended to out, concatenated
RECURSIVE ExpandLoop(_, _)
ExpandLoop(evs, dates) ==
    IF evs = <<>> THEN <<>>
    ELSE LET row == Head(evs)
             window_idx == WindowIdx(dates, row.announcement)
         IN  IF Len(window_idx) = 0
             THEN ExpandLoop(Tail(evs), dates)
             ELSE EventFrame(row, window_idx) \o ExpandLoop(Tail(evs), dates)

\* the concatenation returned whether or not it has rows
ExpandResultAlwaysFrame(rows) == Frame(rows)

\* if out: return pd.concat(out, ...); otherwise the function returns None
ExpandResult(rows) == IF rows # <<>> THEN Frame(rows) ELSE None

expand_event_dates(evs, valid) ==
    ExpandResult(ExpandLoop(evs, ValidIndex(valid)))

(***************************************************************************)
(* Inputs of the expansion run.                                            *)
(***************************************************************************)
AnnounceDays == {0, 1}
DealNos == {1, 2}
TickerPairs == {<<"AAA", "BBB">>, <<"CCC", "DDD">>}
SparseDays == {1, 2, 31, 32}

Deals ==
    {[announcement |-> a, dealno |-> n, acq |-> p[1], tgt |-> p[2]] :
        a \in AnnounceDays, n \in DealNos, p \in TickerPairs}

DailyRange(lo, hi) == [i \in 1..(hi - lo + 1) |-> lo + i - 1]

\* the orders in which an index may list the days of a range
Arrangements(s) == {s, Reverse(s), Reverse(s) \o s}

ValidDateInputs ==
    SeqsUpTo(SparseDays, MaxValidLen)
    \cup UNION {Arrangements(DailyRange(lo, hi)) : lo \in 0..MaxLo, hi \in 0..MaxDay}

InitExpand ==
    /\ pc = "expand"
    /\ events \in SeqsUpTo(Deals, MaxDeals)
    /\ valid_dates \in ValidDateInputs
    /\ expanded_ma_info = Unset
    /\ stk_rets = Unset
    /\ buys = Unset
    /\ sales = Unset
    /\ buy_tgt_sell_acq_rets = Unset
    /\ tgt_rets_by_event_time = Unset
    /\ numerator = Unset
    /\ denominator = Unset
    /\ sample_proportions = Unset
    /\ ma_deals = Unset
    /\ ma_info = Unset
    /\ stk_arets = Unset
    /\ buy_tgt_sell_mkt_rets = Unset
    /\ long_rets = Unset
    /\ expand_out = Unset
    /\ runs = Unset
    /\ org_ff = Unset

ExpandEventDates ==
    /\ pc = "expand"
    /\ expanded_ma_info' = expand_event_dates(events, valid_dates)
    /\ pc' = "expanded"
    /\ UNCHANGED <<events, valid_dates, stk_rets, buys, sales,
                   buy_tgt_sell_acq_rets, tgt_rets_by_event_time, numerator,
                   denominator, sample_proportions, ma_deals, ma_info,
                   stk_arets, buy_tgt_sell_mkt_rets,
                   org_ff,
                   long_rets,
                   expand_out, runs>>

NextExpand == ExpandEventDates

SpecExpand == InitExpand /\ [][NextExpand]_vars

(***************************************************************************)
(* Exact arithmetic on the float columns.                                  *)
(***************************************************************************)
Abs(n) == IF n < 0 THEN -n ELSE n

RECURSIVE GCD(_, _)
GCD(a, b) == IF b = 0 THEN a ELSE GCD(b, a % b)

\* n / d for d > 0, in lowest terms
Frac(n, d) == LET g == GCD(Abs(n), d) IN <<n \div g, d \div g>>

FracSub(x, y) == Frac(x[1] * y[2] - y[1] * x[2], x[2] * y[2])

RECURSIVE SumSeq(_)
SumSeq(s) == IF s = <<>> THEN 0 ELSE Head(s) + SumSeq(Tail(s))

\* a total in place of the average
MeanAsSum(s) == Num(Frac(SumSeq(s), 1))

\* Series.mean(): NaN for no values
Mean(s) == IF s = <<>> THEN NaN ELSE Num(Frac(SumSeq(s), Len(s)))

\* a subtraction that takes a missing side for zero
MinusMissingAsZero(a, b) ==
    IF IsNa(a) /\ IsNa(b) THEN NaN
    ELSE Num(FracSub(IF IsNa(a) THEN <<0, 1>> ELSE a[1],
                     IF IsNa(b) THEN <<0, 1>> ELSE b[1]))

\* float subtraction: NaN when either side is NaN
Minus(a, b) == IF IsNa(a) \/ IsNa(b) THEN NaN ELSE Num(FracSub(a[1], b[1]))

(***************************************************************************)
(* helpers.wide_to_long_rets: wide.stack().reset_index().  A wide table is *)
(* [index, columns, at]: the dates, the tickers and the cell of each pair. *)
(***************************************************************************)
\* every cell kept, a missing one as a return of zero
WideToLongZeroFilled(wide) ==
    LET n == Len(wide.columns)
    IN  [k \in 1..(Len(wide.index) * n) |->
            LET date == wide.index[((k - 1) \div n) + 1]
                ticker == wide.columns[((k - 1) % n) + 1]
            IN  [date |-> date, ticker |-> ticker,
                 ret |-> IF IsNa(wide.at[date][ticker]) THEN 0
                         ELSE wide.at[date][ticker][1]]]

wide_to_long_rets(wide) ==
    LET n == Len(wide.columns)
        cells == [k \in 1..(Len(wide.index) * n) |->
                    LET date == wide.index[((k - 1) \div n) + 1]
                        ticker == wide.columns[((k - 1) % n) + 1]
                    IN  [date |-> date, ticker |-> ticker,
                         ret |-> wide.at[date][ticker]]]
        kept == SelectSeq(cells, LAMBDA c : ~ IsNa(c.ret))
    IN  [k \in DOMAIN kept |->
            [date |-> kept[k].date, ticker |-> kept[k].ticker,
             ret |-> kept[k].ret[1]]]

(***************************************************************************)
(* mk_buy_tgt_sell_acq_rets                                                *)
(***************************************************************************)
Raise(error) == [tag |-> error, rows |-> <<>>]
Series(rows) == [tag |-> "Series", rows |-> rows]

DatesOf(table) == [i \in DOMAIN table |-> table[i].date]

\* the distinct dates of the events only
AcqDatesEventsOnly(evs, rets) == DropDuplicates(DatesOf(evs))

\* events.index.unique().intersection(rets.index)
AcqDates(evs, rets) ==
    SelectSeq(DropDuplicates(DatesOf(evs)),
              LAMBDA d : d \in Range(DatesOf(rets)))

\* table.loc[[date]] on a date index: the rows of that date
LocDate(table, date) == SelectSeq(table, LAMBDA r : r.date = date)

\* .loc[labels] raises KeyError for a label the index lacks
LocRaises(table, labels) == ~ (Range(labels) \subseteq Range(DatesOf(table)))

\* one joined row per pair of rows agreeing on (date, ticker)
RECURSIVE InnerJoin(_, _)
InnerJoin(left, right) ==
    IF left = <<>> THEN <<>>
    ELSE LET l == Head(left)
             hits == SelectSeq(right,
                         LAMBDA r : r.date = l.date /\ r.ticker = l.ticker)
         IN  [k \in DOMAIN hits |->
                 [date |-> l.date, ticker |-> l.ticker, other |-> l.other,
                  announcement |-> l.announcement, dealno |-> l.dealno,
                  ret |-> hits[k].ret]]
             \o InnerJoin(Tail(left), right)

\* events_date.rename(columns={'tgt': 'ticker'}).set_index(['date','ticker'])
KeyedByTgt(events_date) ==
    [i \in DOMAIN events_date |->
        [date |-> events_date[i].date, ticker |-> events_date[i].tgt,
         other |-> events_date[i].acq,
         announcement |-> events_date[i].announcement,
         dealno |-> events_date[i].dealno]]

\* events_date.rename(columns={'acq': 'ticker'}).set_index(['date','ticker'])
KeyedByAcq(events_date) ==
    [i \in DOMAIN events_date |->
        [date |-> events_date[i].date, ticker |-> events_date[i].acq,
         other |-> events_date[i].tgt,
         announcement |-> events_date[i].announcement,
         dealno |-> events_date[i].dealno]]

\* target rows kept only for deals whose acquirer has a return as well
AcqBuysBothSides(evs, rets, date) ==
    InnerJoin(
        KeyedByTgt(SelectSeq(LocDate(evs, date),
            LAMBDA e : \E r \in Range(rets) :
                          r.date = date /\ r.ticker = e.acq)),
        LocDate(rets, date))

\* buys = events_date.rename(tgt -> ticker).set_index(...).join(rets_date, 'inner')
AcqBuys(evs, rets, date) ==
    InnerJoin(KeyedByTgt(LocDate(evs, date)), LocDate(rets, date))

\* sales = events_date.rename(acq -> ticker).set_index(...).join(rets_date, 'inner')
AcqSales(evs, rets, date) ==
    InnerJoin(KeyedByAcq(LocDate(evs, date)), LocDate(rets, date))

RetsOf(joined) == [i \in DOMAIN joined |-> joined[i].ret]

\* buys.loc[:, 'ret'].mean() - sales.loc[:, 'ret'].mean()
AcqValue(evs, rets, date) ==
    Minus(Mean(RetsOf(AcqBuys(evs, rets, date))),
          Mean(RetsOf(AcqSales(evs, rets, date))))

\* the series with its NaN entries left in
KeepNa(ser) == ser

\* Series.dropna()
DropNa(ser) == SelectSeq(ser, LAMBDA e : ~ IsNa(e.value))

\* the series in the order its entries were written
SortIndexSkipped(ser) == ser

\* Series.sort_index(): ascending by date, equal dates in their order
SortIndex(ser) == SortSeq(ser, LAMBDA a, b : a.date < b.date)

\* the loop over dates, then out.dropna().sort_index()
AcqSeries(evs, rets, dates) ==
    LET out == [k \in DOMAIN dates |->
                   [date |-> dates[k], value |-> AcqValue(evs, rets, dates[k])]]
    IN  SortIndex(DropNa(out))

mk_buy_tgt_sell_acq_rets(expanded, wide) ==
    IF expanded.tag # "DataFrame" THEN Raise("AttributeError")
    ELSE LET rets == wide_to_long_rets(wide)
             dates == AcqDates(expanded.rows, rets)
         IN  IF LocRaises(rets, dates) \/ LocRaises(expanded.rows, dates)
             THEN Raise("KeyError")
             ELSE Series(AcqSeries(expanded.rows, rets, dates))

\* the buys frame of each date of the loop, as the loop leaves them
AcqBuysByDate(expanded, wide) ==
    IF mk_buy_tgt_sell_acq_rets(expanded, wide).tag # "Series" THEN Unset
    ELSE LET rets == wide_to_long_rets(wide)
         IN  [d \in Range(AcqDates(expanded.rows, rets)) |->
                 AcqBuys(expanded.rows, rets, d)]

\* the sales frame of each date of the loop, as the loop leaves them
AcqSalesByDate(expanded, wide) ==
    IF mk_buy_tgt_sell_acq_rets(expanded, wide).tag # "Series" THEN Unset
    ELSE LET rets == wide_to_long_rets(wide)
         IN  [d \in Range(AcqDates(expanded.rows, rets)) |->
                 AcqSales(expanded.rows, rets, d)]

(***************************************************************************)
(* Inputs of the strategy run.                                             *)
(***************************************************************************)
MaxRows == 3        \* rows of a hand-built expanded table

AcqTickers == <<"AAA", "BBB", "CCC">>
AcqDays == {1, 2}
RetValues == {NaN, Num(-20), Num(10), Num(30)}

AcqDeals ==
    {[announcement |-> 0, dealno |-> 1, acq |-> "AAA", tgt |-> "BBB"],
     [announcement |-> 0, dealno |-> 2, acq |-> "BBB", tgt |-> "CCC"],
     [announcement |-> 0, dealno |-> 3, acq |-> "ZZZ", tgt |-> "BBB"]}

ExpandedRowInputs ==
    {[date |-> d, announcement |-> ev.announcement, dealno |-> ev.dealno,
      acq |-> ev.acq, tgt |-> ev.tgt] : ev \in AcqDeals, d \in AcqDays}

\* the returns of day 1: any cells
Day1Rows == [Range(AcqTickers) -> RetValues]

\* the returns of day 2, when the table has that day
Day2Rows ==
    {[t \in Range(AcqTickers) |-> NaN],
     [t \in Range(AcqTickers) |-> IF t = "CCC" THEN NaN ELSE Num(30)]}

StkRetsInputs ==
    {[index |-> <<1>>, columns |-> AcqTickers, at |-> [d \in {1} |-> r1]] :
        r1 \in Day1Rows}
    \cup {[index |-> <<1, 2>>, columns |-> AcqTickers,
           at |-> [d \in {1, 2} |-> IF d = 1 THEN r1 ELSE r2]] :
        r1 \in Day1Rows, r2 \in Day2Rows}

InitAcq ==
    /\ pc = "acq"
    /\ expanded_ma_info \in {Frame(rows) : rows \in SeqsUpTo(ExpandedRowInputs, MaxRows)}
    /\ stk_rets \in StkRetsInputs
    /\ events = Unset
    /\ valid_dates = Unset
    /\ buys = Unset
    /\ sales = Unset
    /\ buy_tgt_sell_acq_rets = Unset
    /\ tgt_rets_by_event_time = Unset
    /\ numerator = Unset
    /\ denominator = Unset
    /\ sample_proportions = Unset
    /\ ma_deals = Unset
    /\ ma_info = Unset
    /\ stk_arets = Unset
    /\ buy_tgt_sell_mkt_rets = Unset
    /\ long_rets = Unset
    /\ expand_out = Unset
    /\ runs = Unset
    /\ org_ff = Unset

MkBuyTgtSellAcqRets ==
    /\ pc = "acq"
    /\ buy_tgt_sell_acq_rets' = mk_buy_tgt_sell_acq_rets(expanded_ma_info, stk_rets)
    /\ buys' = AcqBuysByDate(expanded_ma_info, stk_rets)
    /\ sales' = AcqSalesByDate(expanded_ma_info, stk_rets)
    /\ pc' = "acq_done"
    /\ UNCHANGED <<events, valid_dates, expanded_ma_info, stk_rets,
                   tgt_rets_by_event_time, numerator, denominator,
                   sample_proportions, ma_deals, ma_info, stk_arets,
                   buy_tgt_sell_mkt_rets,
                   org_ff,
                   long_rets,
                   expand_out, runs>>

NextAcq == MkBuyTgtSellAcqRets

SpecAcq == InitAcq /\ [][NextAcq]_vars

(***************************************************************************)
(* mk_prop_positive_tgt_rets.  The panel is a wide table [index, columns,  *)
(* at] of event times by deal numbers.                                     *)
(***************************************************************************)
\* cell > 0: False for NaN
Gt0(cell) == ~ IsNa(cell) /\ cell[1] > 0

\* DataFrame.abs(): NaN stays NaN
AbsCell(cell) == IF IsNa(cell) THEN NaN ELSE Num(Abs(cell[1]))

\* the cells that are zero counted with the positive ones
RowNumeratorNonNegative(row) ==
    Cardinality({c \in DOMAIN row : ~ IsNa(row[c]) /\ row[c][1] >= 0})

\* (tgt_rets_by_event_time > 0).sum(axis=1), for one row
RowNumerator(row) == Cardinality({c \in DOMAIN row : Gt0(row[c])})

\* every cell of the row counted, as (panel > 0).mean(axis=1) does
RowDenominatorAllCells(row) == Cardinality(DOMAIN row)

\* (tgt_rets_by_event_time.abs() > 0).sum(axis=1), for one row
RowDenominator(row) == Cardinality({c \in DOMAIN row : Gt0(AbsCell(row[c]))})

\* a division that answers zero where the divisor is zero
DivideZeroForZero(n, d) ==
    IF d # 0 THEN Num(Frac(n, d)) ELSE Num(<<0, 1>>)

\* integer Series division: 0/0 is NaN, n/0 is inf (the fraction 1/0)
Divide(n, d) ==
    IF d # 0 THEN Num(Frac(n, d))
    ELSE IF n = 0 THEN NaN ELSE Num(<<1, 0>>)

RowProportion(row) == Divide(RowNumerator(row), RowDenominator(row))

mk_prop_positive_tgt_rets(panel) ==
    [t \in Range(panel.index) |-> RowProportion(panel.at[t])]

(***************************************************************************)
(* Inputs of the proportion run.                                           *)
(***************************************************************************)
MaxPanelDeals == 3      \* columns of a hand-built panel

PanelValues == {NaN, Num(-5), Num(0), Num(7)}
PanelIndexes == {<<1>>, <<1, 2>>}

Panel(idx, n, at) == [index |-> idx, columns |-> [c \in 1..n |-> c], at |-> at]

InitProp ==
    /\ pc = "prop"
    /\ \E idx \in PanelIndexes, n \in 1..MaxPanelDeals :
           \E at \in [Range(idx) -> [1..n -> PanelValues]] :
               tgt_rets_by_event_time = Panel(idx, n, at)
    /\ events = Unset
    /\ valid_dates = Unset
    /\ expanded_ma_info = Unset
    /\ stk_rets = Unset
    /\ buys = Unset
    /\ sales = Unset
    /\ buy_tgt_sell_acq_rets = Unset
    /\ numerator = Unset
    /\ denominator = Unset
    /\ sample_proportions = Unset
    /\ ma_deals = Unset
    /\ ma_info = Unset
    /\ stk_arets = Unset
    /\ buy_tgt_sell_mkt_rets = Unset
    /\ long_rets = Unset
    /\ expand_out = Unset
    /\ runs = Unset
    /\ org_ff = Unset

MkPropPositiveTgtRets ==
    /\ pc = "prop"
    /\ numerator' = [t \in Range(tgt_rets_by_event_time.index) |->
                        RowNumerator(tgt_rets_by_event_time.at[t])]
    /\ denominator' = [t \in Range(tgt_rets_by_event_time.index) |->
                          RowDenominator(tgt_rets_by_event_time.at[t])]
    /\ sample_proportions' = mk_prop_positive_tgt_rets(tgt_rets_by_event_time)
    /\ pc' = "prop_done"
    /\ UNCHANGED <<events, valid_dates, expanded_ma_info, stk_rets, buys,
                   sales, buy_tgt_sell_acq_rets, tgt_rets_by_event_time,
                   ma_deals, ma_info, stk_arets, buy_tgt_sell_mkt_rets,
                   org_ff,
                   long_rets,
                   expand_out, runs>>

NextProp == MkPropPositiveTgtRets

SpecProp == InitProp /\ [][NextProp]_vars

(***************************************************************************)
(* mean_by_dates and mk_buy_tgt_sell_mkt_rets.  The abnormal-return table  *)
(* is long: rows [date, ticker, aret], aret a float cell, each             *)
(* (date, ticker) at most once.                                            *)
(***************************************************************************)
\* values.loc[[date]]: the cells of value_col on the rows of that date
ValuesAt(df, date) ==
    LET rows == SelectSeq(df, LAMBDA r : r.date = date)
    IN  [k \in DOMAIN rows |-> rows[k].aret]

\* the numbers of the cells that are not NaN, in order
SkipNa(cells) ==
    LET kept == SelectSeq(cells, LAMBDA c : ~ IsNa(c))
    IN  [k \in DOMAIN kept |-> kept[k][1]]

\* one entry per date of df.date.unique(), then out.sort_index()
mean_by_dates(df) ==
    LET dates == DropDuplicates(DatesOf(df))
        out == [k \in DOMAIN dates |->
                   [date |-> dates[k],
                    value |-> Mean(SkipNa(ValuesAt(df, dates[k])))]]
    IN  SortIndex(out)

\* expanded_ma_info.loc[:, ['date','tgt']], tgt renamed ticker, as the index
MktEvents(expanded) ==
    [i \in DOMAIN expanded |->
        [date |-> expanded[i].date, ticker |-> expanded[i].tgt]]

\* a left join whose unmatched rows carry a return of zero
RECURSIVE MktJoinUnmatchedAsZero(_, _)
MktJoinUnmatchedAsZero(left, right) ==
    IF left = <<>> THEN <<>>
    ELSE LET l == Head(left)
             hits == SelectSeq(right,
                         LAMBDA r : r.date = l.date /\ r.ticker = l.ticker)
         IN  (IF hits = <<>>
              THEN << [date |-> l.date, ticker |-> l.ticker, aret |-> Num(0)] >>
              ELSE [k \in DOMAIN hits |->
                      [date |-> l.date, ticker |-> l.ticker,
                       aret |-> hits[k].aret]])
             \o MktJoinUnmatchedAsZero(Tail(left), right)

\* events.join(rets, how='inner').reset_index(): one row per pair of rows
\* agreeing on (date, ticker)
RECURSIVE MktJoin(_, _)
MktJoin(left, right) ==
    IF left = <<>> THEN <<>>
    ELSE LET l == Head(left)
             hits == SelectSeq(right,
                         LAMBDA r : r.date = l.date /\ r.ticker = l.ticker)
         IN  [k \in DOMAIN hits |->
                 [date |-> l.date, ticker |-> l.ticker, aret |-> hits[k].aret]]
             \o MktJoin(Tail(left), right)

\* the joined rows averaged after dropping repeated rows
MktSeriesDeduplicated(expanded, arets) ==
    SortIndex(DropNa(mean_by_dates(
        DropDuplicates(MktJoin(MktEvents(expanded), arets)))))

\* mean_by_dates(events, 'date', 'aret').dropna().sort_index()
MktSeries(expanded, arets) ==
    SortIndex(DropNa(mean_by_dates(MktJoin(MktEvents(expanded), arets))))

\* no series at all for a table without rows, as expand_event_dates does
MktRetsNoneWhenEmpty(expanded, arets) ==
    IF expanded.tag # "DataFrame" THEN Raise("AttributeError")
    ELSE IF expanded.rows = <<>> THEN None
    ELSE Series(MktSeries(expanded.rows, arets))

mk_buy_tgt_sell_mkt_rets(expanded, arets) ==
    IF expanded.tag # "DataFrame" THEN Raise("AttributeError")
    ELSE Series(MktSeries(expanded.rows, arets))

(***************************************************************************)
(* Inputs of mk_buy_tgt_sell_mkt_rets: hand-built expanded tables (rows in *)
(* any order, repeated or not, none at all) and abnormal-return tables     *)
(* that hold any part of MktKeys.                                          *)
(***************************************************************************)
MktKeys ==
    << [date |-> 1, ticker |-> "BBB"], [date |-> 1, ticker |-> "CCC"],
       [date |-> 2, ticker |-> "BBB"] >>

AretValues == {NaN, Num(10), Num(30)}

StkArets(present, aret) ==
    LET keys == SelectSeq([k \in DOMAIN MktKeys |-> k],
                          LAMBDA k : k \in present)
    IN  [i \in DOMAIN keys |->
            [date |-> MktKeys[keys[i]].date,
             ticker |-> MktKeys[keys[i]].ticker,
             aret |-> aret[keys[i]]]]

InitMkt ==
    /\ pc = "mkt"
    /\ expanded_ma_info \in
           {Frame(rows) : rows \in SeqsUpTo(ExpandedRowInputs, MaxRows)}
    /\ \E present \in SUBSET DOMAIN MktKeys :
           \E aret \in [present -> AretValues] :
               stk_arets = StkArets(present, aret)
    /\ events = Unset
    /\ valid_dates = Unset
    /\ stk_rets = Unset
    /\ buys = Unset
    /\ sales = Unset
    /\ buy_tgt_sell_acq_rets = Unset
    /\ tgt_rets_by_event_time = Unset
    /\ numerator = Unset
    /\ denominator = Unset
    /\ sample_proportions = Unset
    /\ ma_deals = Unset
    /\ ma_info = Unset
    /\ buy_tgt_sell_mkt_rets = Unset
    /\ long_rets = Unset
    /\ expand_out = Unset
    /\ runs = Unset
    /\ org_ff = Unset

MkBuyTgtSellMktRets ==
    /\ pc \in {"mkt", "acq_done"}
    /\ buy_tgt_sell_mkt_rets' =
           mk_buy_tgt_sell_mkt_rets(expanded_ma_info, stk_arets)
    /\ pc' = "mkt_done"
    /\ UNCHANGED <<events, valid_dates, expanded_ma_info, stk_rets, buys,
                   sales, buy_tgt_sell_acq_rets, tgt_rets_by_event_time,
                   numerator, denominator, sample_proportions, ma_deals,
                   ma_info, stk_arets, org_ff,
                   long_rets,
                   expand_out, runs>>

NextMkt == MkBuyTgtSellMktRets

SpecMkt == InitMkt /\ [][NextMkt]_vars

(***************************************************************************)
(* mk_stk_arets.  The factor table is [index, at]: its dates and, for each *)
(* date, the cells of the columns Mkt-RF and RF.                           *)
(***************************************************************************)
\* float addition: NaN when either side is NaN
Plus(a, b) == IF IsNa(a) \/ IsNa(b) THEN NaN ELSE Num(a[1] + b[1])

\* the market excess return alone, the risk-free rate left out
MktRetExcessOnly(ff, date) ==
    IF date \in Range(ff.index) THEN ff.at[date].MktRF ELSE NaN

\* mkt of a date: Mkt-RF + RF on the rows of org_ff kept by isin; NaN for a
\* date the factor table lacks (sub aligns on the index)
MktRet(ff, date) ==
    IF date \in Range(ff.index)
    THEN Plus(ff.at[date].MktRF, ff.at[date].RF)
    ELSE NaN

\* stk_rets.sub(mkt, axis=0)
SubMkt(wide, ff) ==
    [index |-> wide.index, columns |-> wide.columns,
     at |-> [d \in Range(wide.index) |->
                [t \in Range(wide.columns) |->
                    IF IsNa(wide.at[d][t]) \/ IsNa(MktRet(ff, d)) THEN NaN
                    ELSE Num(wide.at[d][t][1] - MktRet(ff, d)[1])]]]

\* wide_to_long_rets(arets, ret_col='aret')
mk_stk_arets(wide, ff) ==
    LET long == wide_to_long_rets(SubMkt(wide, ff))
    IN  [k \in DOMAIN long |->
            [date |-> long[k].date, ticker |-> long[k].ticker,
             aret |-> Num(long[k].ret)]]

(***************************************************************************)
(* The two strategies run one after the other on one expanded table, as in *)
(* main(): mk_stk_arets, mk_buy_tgt_sell_acq_rets, mk_buy_tgt_sell_mkt_rets.*)
(***************************************************************************)
FFInputs ==
    {[index |-> <<0, 1, 2>>,
      at |-> [d \in {0, 1, 2} |-> [MktRF |-> Num(4), RF |-> Num(1)]]]}

InitStrategies ==
    /\ pc = "arets"
    /\ expanded_ma_info \in
           {Frame(rows) : rows \in SeqsUpTo(ExpandedRowInputs, MaxRows)}
    /\ stk_rets \in StkRetsInputs
    /\ org_ff \in FFInputs
    /\ stk_arets = Unset
    /\ events = Unset
    /\ valid_dates = Unset
    /\ buys = Unset
    /\ sales = Unset
    /\ buy_tgt_sell_acq_rets = Unset
    /\ tgt_rets_by_event_time = Unset
    /\ numerator = Unset
    /\ denominator = Unset
    /\ sample_proportions = Unset
    /\ ma_deals = Unset
    /\ ma_info = Unset
    /\ buy_tgt_sell_mkt_rets = Unset
    /\ long_rets = Unset
    /\ expand_out = Unset
    /\ runs = Unset

MkStkArets ==
    /\ pc = "arets"
    /\ stk_arets' = mk_stk_arets(stk_rets, org_ff)
    /\ pc' = "acq"
    /\ UNCHANGED <<events, valid_dates, expanded_ma_info, stk_rets, buys,
                   sales, buy_tgt_sell_acq_rets, tgt_rets_by_event_time,
                   numerator, denominator, sample_proportions, ma_deals,
                   ma_info, buy_tgt_sell_mkt_rets, org_ff,
                   long_rets,
                   expand_out, runs>>

NextStrategies == MkStkArets \/ MkBuyTgtSellAcqRets \/ MkBuyTgtSellMktRets

SpecStrategies == InitStrategies /\ [][NextStrategies]_vars

(***************************************************************************)
(* Inputs of mk_stk_arets alone: return tables of one or two dates and     *)
(* factor tables over any part of FFDays, a factor cell missing or not.    *)
(***************************************************************************)
AretTickers == <<"AAA", "BBB">>
AretCells == {NaN, Num(10), Num(-20)}
FFDays == <<0, 1, 2>>
FFCells == {NaN, Num(4), Num(-3)}

AretWide(idx, at) == [index |-> idx, columns |-> AretTickers, at |-> at]

FFTable(days, excess) ==
    [index |-> SelectSeq(FFDays, LAMBDA d : d \in days),
     at |-> [d \in days |-> [MktRF |-> excess[d], RF |-> Num(1)]]]

InitArets ==
    /\ pc = "arets"
    /\ \E idx \in {<<1>>, <<1, 2>>} :
           \E at \in [Range(idx) -> [Range(AretTickers) -> AretCells]] :
               stk_rets = AretWide(idx, at)
    /\ \E days \in SUBSET Range(FFDays) :
           \E excess \in [days -> FFCells] :
               org_ff = FFTable(days, excess)
    /\ expanded_ma_info = Unset
    /\ stk_arets = Unset
    /\ events = Unset
    /\ valid_dates = Unset
    /\ buys = Unset
    /\ sales = Unset
    /\ buy_tgt_sell_acq_rets = Unset
    /\ tgt_rets_by_event_time = Unset
    /\ numerator = Unset
    /\ denominator = Unset
    /\ sample_proportions = Unset
    /\ ma_deals = Unset
    /\ ma_info = Unset
    /\ buy_tgt_sell_mkt_rets = Unset
    /\ long_rets = Unset
    /\ expand_out = Unset
    /\ runs = Unset

NextArets == MkStkArets

SpecArets == InitArets /\ [][NextArets]_vars

(***************************************************************************)
(* wide_to_long_rets alone, on wide tables whose dates come in any order   *)
(* and whose second ticker label is not normalised.                        *)
(***************************************************************************)
LongTickers == <<"AAA", " bbb">>

InitLong ==
    /\ pc = "long"
    /\ \E idx \in {<<1>>, <<1, 2>>, <<2, 1>>} :
           \E at \in [Range(idx) -> [Range(LongTickers) -> AretCells]] :
               stk_rets = [index |-> idx, columns |-> LongTickers, at |-> at]
    /\ org_ff = Unset
    /\ expanded_ma_info = Unset
    /\ stk_arets = Unset
    /\ events = Unset
    /\ valid_dates = Unset
    /\ buys = Unset
    /\ sales = Unset
    /\ buy_tgt_sell_acq_rets = Unset
    /\ tgt_rets_by_event_time = Unset
    /\ numerator = Unset
    /\ denominator = Unset
    /\ sample_proportions = Unset
    /\ ma_deals = Unset
    /\ ma_info = Unset
    /\ buy_tgt_sell_mkt_rets = Unset
    /\ long_rets = Unset
    /\ expand_out = Unset
    /\ runs = Unset

WideToLongRets ==
    /\ pc = "long"
    /\ long_rets' = wide_to_long_rets(stk_rets)
    /\ pc' = "long_done"
    /\ UNCHANGED <<events, valid_dates, expanded_ma_info, stk_rets, buys,
                   sales, buy_tgt_sell_acq_rets, tgt_rets_by_event_time,
                   numerator, denominator, sample_proportions, ma_deals,
                   ma_info, stk_arets, buy_tgt_sell_mkt_rets, org_ff,
                   expand_out, runs>>

NextLong == WideToLongRets

SpecLong == InitLong /\ [][NextLong]_vars

(***************************************************************************)
(* mk_tgt_rets_by_event_time.  The panel is [tag, index, columns, at]: the *)
(* event times, the deal numbers and the cell of each pair.                *)
(***************************************************************************)
\* the event_time column as given with the table
EventTimeAsGiven(row) == row.event_time

\* (df.date - df.announcement).dt.days, written over any event_time column
EventTimeOf(row) == row.date - row.announcement

EventTimes(rows) == [i \in DOMAIN rows |-> EventTimeOf(rows[i])]
DealNosOf(rows) == [i \in DOMAIN rows |-> rows[i].dealno]

\* date not in stk_rets.index or tic not in stk_rets.columns
PanelSkips(row, wide) ==
    row.date \notin Range(wide.index) \/ row.tgt \notin Range(wide.columns)

\* every row written, a row without a return as a return of zero
RECURSIVE PanelLoopNoSkip(_, _, _)
PanelLoopNoSkip(rows, wide, out) ==
    IF rows = <<>> THEN out
    ELSE LET row == Head(rows)
         IN  PanelLoopNoSkip(Tail(rows), wide,
                 [out EXCEPT ![EventTimeOf(row)][row.dealno] =
                     IF PanelSkips(row, wide) THEN Num(0)
                     ELSE wide.at[row.date][row.tgt]])

\* the loop over df.iterrows(): a later row writes over an earlier one
RECURSIVE PanelLoop(_, _, _)
PanelLoop(rows, wide, out) ==
    IF rows = <<>> THEN out
    ELSE LET row == Head(rows)
         IN  IF PanelSkips(row, wide)
             THEN PanelLoop(Tail(rows), wide, out)
             ELSE PanelLoop(Tail(rows), wide,
                      [out EXCEPT ![EventTimeOf(row)][row.dealno] =
                          wide.at[row.date][row.tgt]])

\* out.sort_index(): the row keys ascending
PanelIndex(values) == SortValues(values)

\* the deal numbers that received a return only
PanelColumnsFilled(rows, wide) ==
    DropDuplicates(DealNosOf(SelectSeq(rows,
        LAMBDA r : ~ PanelSkips(r, wide))))

\* expanded_ma_info.dealno.unique()
PanelColumns(rows, wide) == DropDuplicates(DealNosOf(rows))

mk_tgt_rets_by_event_time(wide, expanded) ==
    IF expanded.tag # "DataFrame" THEN Raise("AttributeError")
    ELSE LET values == DropDuplicates(EventTimes(expanded.rows))
             deals == PanelColumns(expanded.rows, wide)
             empty == [t \in Range(values) |-> [d \in Range(deals) |-> NaN]]
         IN  [tag |-> "DataFrame", index |-> PanelIndex(values),
              columns |-> deals,
              at |-> PanelLoop(expanded.rows, wide, empty)]

(***************************************************************************)
(* Inputs of mk_tgt_rets_by_event_time: hand-built expanded tables whose   *)
(* rows carry an event_time column of their own, and small return tables.  *)
(* The last deal record repeats deal number 1 with another announcement.   *)
(***************************************************************************)
PanelDeals ==
    {[announcement |-> 0, dealno |-> 1, acq |-> "AAA", tgt |-> "BBB"],
     [announcement |-> 1, dealno |-> 2, acq |-> "BBB", tgt |-> "CCC"],
     [announcement |-> 0, dealno |-> 3, acq |-> "AAA", tgt |-> "ZZZ"],
     [announcement |-> 1, dealno |-> 1, acq |-> "AAA", tgt |-> "CCC"]}

PanelDays == {1, 2, 3}

PanelRowInputs ==
    {[date |-> d, announcement |-> ev.announcement, dealno |-> ev.dealno,
      acq |-> ev.acq, tgt |-> ev.tgt, event_time |-> 1] :
        ev \in PanelDeals, d \in PanelDays}

PanelRets(a, b, c) ==
    [index |-> <<1, 2>>, columns |-> <<"BBB", "CCC">>,
     at |-> [d \in {1, 2} |->
                IF d = 1 THEN [t \in {"BBB", "CCC"} |->
                                  IF t = "BBB" THEN a ELSE b]
                ELSE [t \in {"BBB", "CCC"} |->
                         IF t = "BBB" THEN Num(30) ELSE c]]]

InitPanel ==
    /\ pc = "panel"
    /\ expanded_ma_info \in
           {Frame(rows) : rows \in SeqsUpTo(PanelRowInputs, MaxRows)}
    /\ \E a \in {NaN, Num(10)}, b \in {Num(-20), Num(10)}, c \in {NaN, Num(7)} :
           stk_rets = PanelRets(a, b, c)
    /\ events = Unset
    /\ valid_dates = Unset
    /\ buys = Unset
    /\ sales = Unset
    /\ buy_tgt_sell_acq_rets = Unset
    /\ tgt_rets_by_event_time = Unset
    /\ numerator = Unset
    /\ denominator = Unset
    /\ sample_proportions = Unset
    /\ ma_deals = Unset
    /\ ma_info = Unset
    /\ stk_arets = Unset
    /\ buy_tgt_sell_mkt_rets = Unset
    /\ long_rets = Unset
    /\ expand_out = Unset
    /\ runs = Unset
    /\ org_ff = Unset

MkTgtRetsByEventTime ==
    /\ pc = "panel"
    /\ tgt_rets_by_event_time' =
           mk_tgt_rets_by_event_time(stk_rets, expanded_ma_info)
    /\ pc' = "panel_done"
    /\ UNCHANGED <<events, valid_dates, expanded_ma_info, stk_rets, buys,
                   sales, buy_tgt_sell_acq_rets, numerator, denominator,
                   sample_proportions, ma_deals, ma_info, stk_arets,
                   buy_tgt_sell_mkt_rets, org_ff,
                   long_rets,
                   expand_out, runs>>

NextPanel == MkTgtRetsByEventTime

SpecPanel == InitPanel /\ [][NextPanel]_vars

(***************************************************************************)
(* mk_ma_info.  A raw deal record is [dealno, firmtype, ticker,            *)
(* announcement], the announcement a 'YYYY-MM-DD' text.                    *)
(***************************************************************************)
\* df.loc[df.firmtype == ft, base_cols] after astype(datetime64[ns]),
\* indexed by (announcement, dealno)
FirmTypeFrame(deals, ft) ==
    LET kept == SelectSeq(deals, LAMBDA r : r.firmtype = ft)
    IN  [k \in DOMAIN kept |->
            [announcement |-> ParseDt(kept[k].announcement),
             dealno |-> kept[k].dealno, ticker |-> kept[k].ticker]]

\* dfs['acq'].join(dfs['tgt'].loc[:, ['tgt']], how='inner'): one row per
\* pair of rows agreeing on (announcement, dealno)
RECURSIVE MaJoin(_, _)
MaJoin(acqs, tgts) ==
    IF acqs = <<>> THEN <<>>
    ELSE LET l == Head(acqs)
             hits == SelectSeq(tgts,
                         LAMBDA r : r.announcement = l.announcement
                                    /\ r.dealno = l.dealno)
         IN  [k \in DOMAIN hits |->
                 [announcement |-> l.announcement, dealno |-> l.dealno,
                  acq |-> l.ticker, tgt |-> hits[k].ticker]]
             \o MaJoin(Tail(acqs), tgts)

mk_ma_info(deals) ==
    Frame(MaJoin(FirmTypeFrame(deals, "acq"), FirmTypeFrame(deals, "tgt")))

(***************************************************************************)
(* Inputs of mk_ma_info: any few raw records, in any order.                *)
(***************************************************************************)
MaxRecords == 3     \* rows of the raw deal table

RawRecords ==
    [dealno : {1, 2}, firmtype : {"acq", "tgt"}, ticker : {"AAA", "BBB"},
     announcement : {<<2021, 1, 5>>, <<2021, 1, 6>>}]

InitMaInfo ==
    /\ pc = "ma_info"
    /\ ma_deals \in SeqsUpTo(RawRecords, MaxRecords)
    /\ ma_info = Unset
    /\ events = Unset
    /\ valid_dates = Unset
    /\ expanded_ma_info = Unset
    /\ stk_rets = Unset
    /\ buys = Unset
    /\ sales = Unset
    /\ buy_tgt_sell_acq_rets = Unset
    /\ tgt_rets_by_event_time = Unset
    /\ numerator = Unset
    /\ denominator = Unset
    /\ sample_proportions = Unset
    /\ stk_arets = Unset
    /\ buy_tgt_sell_mkt_rets = Unset
    /\ long_rets = Unset
    /\ expand_out = Unset
    /\ runs = Unset
    /\ org_ff = Unset

MkMaInfo ==
    /\ pc = "ma_info"
    /\ ma_info' = mk_ma_info(ma_deals)
    /\ pc' = "ma_info_done"
    /\ UNCHANGED <<events, valid_dates, expanded_ma_info, stk_rets, buys,
                   sales, buy_tgt_sell_acq_rets, tgt_rets_by_event_time,
                   numerator, denominator, sample_proportions, ma_deals,
                   stk_arets, buy_tgt_sell_mkt_rets, org_ff,
                   long_rets,
                   expand_out, runs>>

NextMaInfo == MkMaInfo

SpecMaInfo == InitMaInfo /\ [][NextMaInfo]_vars

(***************************************************************************)
(* main(): the stages run one after the other on one deal table and one    *)
(* return table, each on the outputs of the stages before it.  A stage     *)
(* that raises ends the run (pc = "main_aborted"); the exception is kept   *)
(* in the variable the stage would have assigned.                          *)
(***************************************************************************)
Raised(result) == result.tag \in {"AttributeError", "KeyError"}

\* where main() stands after a stage: at the next stage, or nowhere
AfterStage(result, next) == IF Raised(result) THEN "main_aborted" ELSE next

MainTickers == <<"AAA", "BBB", "CCC">>

MainRows ==
    {[t \in Range(MainTickers) |-> Num(10)],
     [t \in Range(MainTickers) |->
         IF t = "AAA" THEN NaN ELSE IF t = "BBB" THEN Num(-20) ELSE Num(0)],
     [t \in Range(MainTickers) |-> IF t = "CCC" THEN Num(30) ELSE NaN]}

MainIndexes ==
    {<<1, 2>>, <<0, 1>>, <<30, 31>>, <<40, 41>>, DailyRange(0, MaxDay - 1)}

MainRets(idx, r1, r2) ==
    [index |-> idx, columns |-> MainTickers,
     at |-> [d \in Range(idx) |-> IF d = idx[1] THEN r1 ELSE r2]]

MainFF ==
    [index |-> <<0, 1, 2, 30, 31>>,
     at |-> [d \in {0, 1, 2, 30, 31} |-> [MktRF |-> Num(4), RF |-> Num(1)]]]

InitMain ==
    /\ pc = "main"
    /\ events \in SeqsUpTo(Deals, MaxDeals)
    /\ \E idx \in MainIndexes, r1 \in MainRows, r2 \in MainRows :
           stk_rets = MainRets(idx, r1, r2)
    /\ valid_dates = stk_rets.index
    /\ org_ff = MainFF
    /\ expanded_ma_info = Unset
    /\ stk_arets = Unset
    /\ buys = Unset
    /\ sales = Unset
    /\ buy_tgt_sell_acq_rets = Unset
    /\ tgt_rets_by_event_time = Unset
    /\ numerator = Unset
    /\ denominator = Unset
    /\ sample_proportions = Unset
    /\ ma_deals = Unset
    /\ ma_info = Unset
    /\ buy_tgt_sell_mkt_rets = Unset
    /\ long_rets = Unset
    /\ expand_out = Unset
    /\ runs = Unset

MainStkArets ==
    /\ pc = "main"
    /\ stk_arets' = mk_stk_arets(stk_rets, org_ff)
    /\ pc' = "main_expand"
    /\ UNCHANGED <<events, valid_dates, expanded_ma_info, stk_rets, buys,
                   sales, buy_tgt_sell_acq_rets, tgt_rets_by_event_time,
                   numerator, denominator, sample_proportions, ma_deals,
                   ma_info, buy_tgt_sell_mkt_rets, org_ff, long_rets,
                   expand_out, runs>>

MainExpand ==
    /\ pc = "main_expand"
    /\ expanded_ma_info' = expand_event_dates(events, valid_dates)
    /\ pc' = "main_acq"
    /\ UNCHANGED <<events, valid_dates, stk_rets, buys, sales,
                   buy_tgt_sell_acq_rets, tgt_rets_by_event_time,
                   numerator, denominator, sample_proportions, ma_deals,
                   ma_info, stk_arets, buy_tgt_sell_mkt_rets, org_ff,
                   long_rets,
                   expand_out, runs>>

MainAcq ==
    /\ pc = "main_acq"
    /\ buy_tgt_sell_acq_rets' = mk_buy_tgt_sell_acq_rets(expanded_ma_info, stk_rets)
    /\ buys' = AcqBuysByDate(expanded_ma_info, stk_rets)
    /\ sales' = AcqSalesByDate(expanded_ma_info, stk_rets)
    /\ pc' = AfterStage(buy_tgt_sell_acq_rets', "main_mkt")
    /\ UNCHANGED <<events, valid_dates, expanded_ma_info, stk_rets,
                   tgt_rets_by_event_time, numerator, denominator,
                   sample_proportions, ma_deals, ma_info, stk_arets,
                   buy_tgt_sell_mkt_rets, org_ff, long_rets,
                   expand_out, runs>>

MainMkt ==
    /\ pc = "main_mkt"
    /\ buy_tgt_sell_mkt_rets' =
           mk_buy_tgt_sell_mkt_rets(expanded_ma_info, stk_arets)
    /\ pc' = AfterStage(buy_tgt_sell_mkt_rets', "main_panel")
    /\ UNCHANGED <<events, valid_dates, expanded_ma_info, stk_rets, buys,
                   sales, buy_tgt_sell_acq_rets, tgt_rets_by_event_time,
                   numerator, denominator, sample_proportions, ma_deals,
                   ma_info, stk_arets, org_ff, long_rets,
                   expand_out, runs>>

MainPanel ==
    /\ pc = "main_panel"
    /\ tgt_rets_by_event_time' =
           mk_tgt_rets_by_event_time(stk_rets, expanded_ma_info)
    /\ pc' = AfterStage(tgt_rets_by_event_time', "main_prop")
    /\ UNCHANGED <<events, valid_dates, expanded_ma_info, stk_rets, buys,
                   sales, buy_tgt_sell_acq_rets, numerator, denominator,
                   sample_proportions, ma_deals, ma_info, stk_arets,
                   buy_tgt_sell_mkt_rets, org_ff, long_rets,
                   expand_out, runs>>

MainProp ==
    /\ pc = "main_prop"
    /\ numerator' = [t \in Range(tgt_rets_by_event_time.index) |->
                        RowNumerator(tgt_rets_by_event_time.at[t])]
    /\ denominator' = [t \in Range(tgt_rets_by_event_time.index) |->
                          RowDenominator(tgt_rets_by_event_time.at[t])]
    /\ sample_proportions' = mk_prop_positive_tgt_rets(tgt_rets_by_event_time)
    /\ pc' = "main_done"
    /\ UNCHANGED <<events, valid_dates, expanded_ma_info, stk_rets, buys,
                   sales, buy_tgt_sell_acq_rets, tgt_rets_by_event_time,
                   ma_deals, ma_info, stk_arets, buy_tgt_sell_mkt_rets,
                   org_ff, long_rets,
                   expand_out, runs>>

NextMain ==
    MainStkArets \/ MainExpand \/ MainAcq \/ MainMkt \/ MainPanel \/ MainProp

SpecMain == InitMain /\ [][NextMain]_vars

(***************************************************************************)
(* expand_event_dates and mk_tgt_rets_by_event_time run several times in   *)
(* succession on the same deals, valid dates and return table.  The list   *)
(* out of expand_event_dates is part of the state, so that what a call     *)
(* leaves behind is there when the next call starts.                       *)
(***************************************************************************)
MaxRuns == 2        \* runs made in succession

\* a list that outlives the call, as a mutable default argument would
OutKeptAcrossCalls(previous) == previous

\* out = []: every call starts from a list of its own
NewOut(previous) == <<>>

InitTwice ==
    /\ pc = "twice_expand"
    /\ events \in SeqsUpTo(Deals, MaxDeals)
    /\ \E idx \in MainIndexes, r1 \in MainRows, r2 \in MainRows :
           stk_rets = MainRets(idx, r1, r2)
    /\ valid_dates = stk_rets.index
    /\ expand_out = <<>>
    /\ runs = <<>>
    /\ org_ff = Unset
    /\ expanded_ma_info = Unset
    /\ stk_arets = Unset
    /\ buys = Unset
    /\ sales = Unset
    /\ buy_tgt_sell_acq_rets = Unset
    /\ tgt_rets_by_event_time = Unset
    /\ numerator = Unset
    /\ denominator = Unset
    /\ sample_proportions = Unset
    /\ ma_deals = Unset
    /\ ma_info = Unset
    /\ buy_tgt_sell_mkt_rets = Unset
    /\ long_rets = Unset

TwiceExpand ==
    /\ pc = "twice_expand"
    /\ expand_out' =
           NewOut(expand_out) \o ExpandLoop(events, ValidIndex(valid_dates))
    /\ expanded_ma_info' = ExpandResult(expand_out')
    /\ pc' = "twice_panel"
    /\ UNCHANGED <<events, valid_dates, stk_rets, buys, sales,
                   buy_tgt_sell_acq_rets, tgt_rets_by_event_time, numerator,
                   denominator, sample_proportions, ma_deals, ma_info,
                   stk_arets, buy_tgt_sell_mkt_rets, org_ff, long_rets, runs>>

TwicePanel ==
    /\ pc = "twice_panel"
    /\ tgt_rets_by_event_time' =
           mk_tgt_rets_by_event_time(stk_rets, expanded_ma_info)
    /\ runs' = Append(runs,
                   [expanded_ma_info |-> expanded_ma_info,
                    tgt_rets_by_event_time |-> tgt_rets_by_event_time'])
    /\ pc' = IF Len(runs') < MaxRuns THEN "twice_expand" ELSE "twice_done"
    /\ UNCHANGED <<events, valid_dates, expanded_ma_info, stk_rets, buys,
                   sales, buy_tgt_sell_acq_rets, numerator, denominator,
                   sample_proportions, ma_deals, ma_info, stk_arets,
                   buy_tgt_sell_mkt_rets, org_ff, long_rets, expand_out>>

NextTwice == TwiceExpand \/ TwicePanel

SpecTwice == InitTwice /\ [][NextTwice]_vars

(***************************************************************************)
(* Properties of expand_event_dates.                                       *)
(***************************************************************************)
Expanded == pc = "expanded"
ExpandedRows == Range(expanded_ma_info.rows)
ValidDateSet == Range(valid_dates)

\* event_time of a date for an announcement, in days
EventTime(date, announce) == date - announce

InWindowOf(ev, d) ==
    1 <= EventTime(d, ev.announcement) /\ EventTime(d, ev.announcement) <= 30

RowOf(ev, d) ==
    [date |-> d, announcement |-> ev.announcement, dealno |-> ev.dealno,
     acq |-> ev.acq, tgt |-> ev.tgt]

IsRowOf(r, ev) ==
    /\ r.announcement = ev.announcement
    /\ r.dealno = ev.dealno
    /\ r.acq = ev.acq
    /\ r.tgt = ev.tgt

HasWindow(ev) == \E d \in ValidDateSet : InWindowOf(ev, d)

\* the days 1 to 30 after an announcement
FullWindow(ev) == (ev.announcement + 1)..(ev.announcement + 30)

\* C1: every (deal, valid date) pair with 1 <= date - announcement <= 30 has
\* a row in the output, days 1 and 30 included; when the valid dates cover
\* all of [A+1, A+30] the deal's dates are exactly those 30 days.
C1_ExpandComplete ==
    Expanded =>
        \A i \in DOMAIN events :
            /\ \A d \in ValidDateSet :
                   InWindowOf(events[i], d) => RowOf(events[i], d) \in ExpandedRows
            /\ FullWindow(events[i]) \subseteq ValidDateSet =>
                   {r.date : r \in {x \in ExpandedRows : IsRowOf(x, events[i])}}
                       = FullWindow(events[i])

\* a deal with the whole window valid, hence with rows on day 1 and day 30
C1_Witness ==
    /\ Expanded
    /\ \E i \in DOMAIN events :
           /\ FullWindow(events[i]) \subseteq ValidDateSet
           /\ events[i].announcement + 31 \in ValidDateSet
           /\ RowOf(events[i], events[i].announcement + 1) \in ExpandedRows
           /\ RowOf(events[i], events[i].announcement + 30) \in ExpandedRows

\* C2: every output row has its date among the valid dates, an event_time
\* in [1, 30], and the announcement, dealno, acq and tgt of one input deal.
C2_ExpandSound ==
    Expanded =>
        \A r \in ExpandedRows :
            /\ r.date \in ValidDateSet
            /\ 1 <= EventTime(r.date, r.announcement)
            /\ EventTime(r.date, r.announcement) <= 30
            /\ \E i \in DOMAIN events : IsRowOf(r, events[i])

\* rows were produced although the announcement day and day 31 are valid
C2_Witness ==
    /\ Expanded
    /\ ExpandedRows # {}
    /\ \E i \in DOMAIN events :
           /\ events[i].announcement \in ValidDateSet
           /\ events[i].announcement + 31 \in ValidDateSet
           /\ HasWindow(events[i])

\* C3: None is returned exactly when no deal has a valid date in its
\* window; otherwise a table with at least one row; a deal with an empty
\* window has no rows and the other deals keep theirs.
C3_NoneIffNoWindow ==
    Expanded =>
        /\ expanded_ma_info.tag = "None"
               <=> ~ \E i \in DOMAIN events : HasWindow(events[i])
        /\ expanded_ma_info.tag = "DataFrame" => Len(expanded_ma_info.rows) >= 1
        /\ expanded_ma_info.tag \in {"None", "DataFrame"}
        /\ \A i \in DOMAIN events :
               IF HasWindow(events[i])
               THEN \E r \in ExpandedRows : IsRowOf(r, events[i])
               ELSE \A r \in ExpandedRows : ~ IsRowOf(r, events[i])

\* two deals, the first without any valid date in its window
C3_Witness ==
    /\ Expanded
    /\ Len(events) = 2
    /\ ~ HasWindow(events[1])
    /\ HasWindow(events[2])
    /\ expanded_ma_info.tag = "DataFrame"

\* the valid dates as the deduplicated ascending sequence
AscendingSeq(S) ==
    LET rank == [x \in S |-> Cardinality({y \in S : y < x})]
    IN  [k \in 1..Cardinality(S) |-> CHOOSE x \in S : rank[x] = k - 1]

\* C4: the output is the output for the deduplicated ascending sequence of
\* the valid dates, whatever their order and repetition in the input.
C4_OrderAndRepetitionFree ==
    Expanded =>
        expanded_ma_info = expand_event_dates(events, AscendingSeq(ValidDateSet))

\* an index that repeats a date and is not ascending, with rows produced
C4_Witness ==
    /\ Expanded
    /\ expanded_ma_info.tag = "DataFrame"
    /\ Len(valid_dates) > Cardinality(ValidDateSet)
    /\ valid_dates # SortValues(valid_dates)

UniqueDealno ==
    \A i, j \in DOMAIN events : events[i].dealno = events[j].dealno => i = j

\* C5: with unique dealno no two rows share (dealno, date) and no dealno
\* has more than 30 rows, whatever duplicates the valid dates contain.
C5_UniqueDealDates ==
    (Expanded /\ UniqueDealno) =>
        LET rows == expanded_ma_info.rows
        IN  /\ \A i, j \in DOMAIN rows :
                   (rows[i].dealno = rows[j].dealno /\ rows[i].date = rows[j].date)
                       => i = j
            /\ \A n \in DealNos :
                   Cardinality({i \in DOMAIN rows : rows[i].dealno = n}) <= 30

\* two deals with distinct dealno, repeated valid dates, one deal with 30 rows
C5_Witness ==
    /\ Expanded
    /\ UniqueDealno
    /\ Len(events) = 2
    /\ Len(valid_dates) > Cardinality(ValidDateSet)
    /\ \E n \in DealNos :
           Cardinality({i \in DOMAIN expanded_ma_info.rows :
                           expanded_ma_info.rows[i].dealno = n}) = 30

(***************************************************************************)
(* Properties of mk_prop_positive_tgt_rets.                                *)
(***************************************************************************)
PropDone == pc = "prop_done"
PanelRow(t) == tgt_rets_by_event_time.at[t]
PanelTimes == Range(tgt_rets_by_event_time.index)

\* the deals whose cell of the row is not missing
Present(row) == {c \in DOMAIN row : ~ IsNa(row[c])}

\* the row without its missing cells
WithoutMissing(row) == [c \in Present(row) |-> row[c]]

\* C6: the denominator of an event time is the number of its non-missing
\* cells, zero and negative cells counted, only missing cells left out.
C6_DenominatorCountsNonMissing ==
    PropDone =>
        \A t \in PanelTimes : denominator[t] = Cardinality(Present(PanelRow(t)))

\* C7: a missing cell is in neither count: the numerator is the number of
\* cells > 0, the denominator counts no missing cell, and the proportion of
\* a row is that of the row without its missing cells; a row of non-zero
\* values and missing cells gives (cells > 0) / (non-missing cells).
C7_MissingIgnored ==
    PropDone =>
        \A t \in PanelTimes :
            LET row == PanelRow(t)
                positive == {c \in Present(row) : row[c][1] > 0}
                nonzero == {c \in Present(row) : row[c][1] # 0}
            IN  /\ numerator[t] = Cardinality(positive)
                /\ denominator[t] <= Cardinality(Present(row))
                /\ sample_proportions[t] = RowProportion(WithoutMissing(row))
                /\ (nonzero = Present(row) /\ Present(row) # {}) =>
                       sample_proportions[t] =
                           Num(Frac(Cardinality(positive),
                                    Cardinality(Present(row))))

\* a row holding a positive, a negative and a missing cell: 1/2, not 1/3
C7_Witness ==
    /\ PropDone
    /\ \E t \in PanelTimes :
           /\ Cardinality(DOMAIN PanelRow(t)) = 3
           /\ Cardinality(Present(PanelRow(t))) = 2
           /\ numerator[t] = 1
           /\ sample_proportions[t] = Num(<<1, 2>>)

(***************************************************************************)
(* Properties of mk_buy_tgt_sell_acq_rets.                                 *)
(***************************************************************************)
AcqDone == pc = "acq_done"
AcqOut == buy_tgt_sell_acq_rets.rows
RowsOn(d) == SelectSeq(expanded_ma_info.rows, LAMBDA r : r.date = d)

\* the cell of the return table for a date and a ticker, NaN when absent
CellAt(d, ticker) ==
    IF d \in Range(stk_rets.index) /\ ticker \in Range(stk_rets.columns)
    THEN stk_rets.at[d][ticker]
    ELSE NaN

HasRet(d, ticker) == ~ IsNa(CellAt(d, ticker))

\* the returns on date d of the target (or acquirer) tickers of its rows
SideReturns(d, side) ==
    LET on == RowsOn(d)
        cells == [i \in DOMAIN on |->
                     CellAt(d, IF side = "tgt" THEN on[i].tgt ELSE on[i].acq)]
        present == SelectSeq(cells, LAMBDA c : ~ IsNa(c))
    IN  [i \in DOMAIN present |-> present[i][1]]

\* C8: the value of every output date is mean(target returns of the rows
\* of that date) - mean(acquirer returns of the rows of that date), each an
\* equal-weighted mean over the matched rows; a single deal on a date gives
\* its target return minus its acquirer return.
C8_MeanTgtMinusMeanAcq ==
    AcqDone =>
        /\ buy_tgt_sell_acq_rets.tag = "Series"
        /\ \A k \in DOMAIN AcqOut :
               LET d == AcqOut[k].date
                   v == AcqOut[k].value
                   T == SideReturns(d, "tgt")
                   A == SideReturns(d, "acq")
               IN  /\ ~ IsNa(v)
                   /\ Len(T) > 0
                   /\ Len(A) > 0
                   /\ v[1][2] > 0
                   /\ v[1][1] * (Len(T) * Len(A))
                          = v[1][2] * (SumSeq(T) * Len(A) - SumSeq(A) * Len(T))
                   /\ Len(RowsOn(d)) = 1 => v[1] = <<T[1] - A[1], 1>>

\* a date with two matched targets and two matched acquirers whose means
\* are not the returns of either deal alone
C8_Witness ==
    /\ AcqDone
    /\ \E k \in DOMAIN AcqOut :
           LET T == SideReturns(AcqOut[k].date, "tgt")
               A == SideReturns(AcqOut[k].date, "acq")
           IN  /\ Len(T) = 2 /\ T[1] # T[2]
               /\ Len(A) = 2 /\ A[1] # A[2]
               /\ AcqOut[k].value[1][1] # 0

\* how many rows of a joined frame come from the expanded row x
JoinedFrom(joined, x, key, other) ==
    Cardinality({k \in DOMAIN joined :
        /\ joined[k].date = x.date
        /\ joined[k].ticker = key
        /\ joined[k].other = other
        /\ joined[k].announcement = x.announcement
        /\ joined[k].dealno = x.dealno})

Copies(x) ==
    Cardinality({i \in DOMAIN expanded_ma_info.rows : expanded_ma_info.rows[i] = x})

\* C9: on every date of the loop a row enters the target side exactly when
\* its target has a return and the acquirer side exactly when its acquirer
\* has a return, each side whatever the other; no error is raised.
C9_SidesJoinedIndependently ==
    AcqDone =>
        /\ buy_tgt_sell_acq_rets.tag = "Series"
        /\ DOMAIN buys = DOMAIN sales
        /\ {AcqOut[k].date : k \in DOMAIN AcqOut} \subseteq DOMAIN buys
        /\ \A d \in DOMAIN buys :
               \A x \in Range(RowsOn(d)) :
                   /\ JoinedFrom(buys[d], x, x.tgt, x.acq)
                          = IF HasRet(d, x.tgt) THEN Copies(x) ELSE 0
                   /\ JoinedFrom(sales[d], x, x.acq, x.tgt)
                          = IF HasRet(d, x.acq) THEN Copies(x) ELSE 0

\* an output date with one deal lacking its target return only and
\* another lacking its acquirer return only
C9_Witness ==
    /\ AcqDone
    /\ \E k \in DOMAIN AcqOut :
           LET d == AcqOut[k].date
           IN  \E x, y \in Range(RowsOn(d)) :
                   /\ ~ HasRet(d, x.tgt) /\ HasRet(d, x.acq)
                   /\ HasRet(d, y.tgt) /\ ~ HasRet(d, y.acq)
                   /\ JoinedFrom(sales[d], x, x.acq, x.tgt) = 1
                   /\ JoinedFrom(buys[d], y, y.tgt, y.acq) = 1

ExpandedDates == {expanded_ma_info.rows[i].date : i \in DOMAIN expanded_ma_info.rows}

\* C10: every output date is a date of an expanded row and a date of the
\* return table; an expanded date the return table lacks has no entry in
\* the output, with or without a value.
C10_OutputDatesInBoth ==
    AcqDone =>
        /\ buy_tgt_sell_acq_rets.tag = "Series"
        /\ \A k \in DOMAIN AcqOut :
               /\ AcqOut[k].date \in ExpandedDates
               /\ AcqOut[k].date \in Range(stk_rets.index)
        /\ \A d \in ExpandedDates \ Range(stk_rets.index) :
               \A k \in DOMAIN AcqOut : AcqOut[k].date # d

\* an expanded date missing from the return table beside one that is output
C10_Witness ==
    /\ AcqDone
    /\ ExpandedDates \ Range(stk_rets.index) # {}
    /\ AcqOut # <<>>

(***************************************************************************)
(* Properties of mk_buy_tgt_sell_mkt_rets.                                 *)
(***************************************************************************)
MktDone == pc = "mkt_done"
MktOut == buy_tgt_sell_mkt_rets.rows
MktRows == expanded_ma_info.rows

\* the aret cell of the record of (d, ticker); NaN when there is no record
AretAt(d, ticker) ==
    IF \E r \in Range(stk_arets) : r.date = d /\ r.ticker = ticker
    THEN (CHOOSE r \in Range(stk_arets) : r.date = d /\ r.ticker = ticker).aret
    ELSE NaN

HasAretRecord(d, ticker) ==
    \E r \in Range(stk_arets) : r.date = d /\ r.ticker = ticker

\* the expanded rows (by position) of date d whose target has an aret
MktTerms(d) ==
    {i \in DOMAIN MktRows :
        /\ MktRows[i].date = d
        /\ ~ IsNa(AretAt(d, MktRows[i].tgt))}

RECURSIVE SumArets(_)
SumArets(rows) ==
    IF rows = {} THEN 0
    ELSE LET i == CHOOSE k \in rows : TRUE
         IN  AretAt(MktRows[i].date, MktRows[i].tgt)[1]
             + SumArets(rows \ {i})

\* C11: every value of the output of mk_buy_tgt_sell_mkt_rets is the
\* arithmetic mean of aret over the expanded rows of its date whose
\* (date, tgt) has an abnormal return, one term per expanded row: rows that
\* name the same target on the same date each count.
C11_MeanOverMatchedRows ==
    MktDone =>
        /\ buy_tgt_sell_mkt_rets.tag = "Series"
        /\ \A k \in DOMAIN MktOut :
              /\ MktTerms(MktOut[k].date) # {}
              /\ MktOut[k].value =
                     Num(Frac(SumArets(MktTerms(MktOut[k].date)),
                              Cardinality(MktTerms(MktOut[k].date))))

\* arets 10, 10, 30 of three rows of one date, two of them naming the same
\* target, give 50/3
C11_Witness ==
    /\ MktDone
    /\ Len(MktRows) = 3
    /\ \A i \in 1..3 : MktRows[i].date = 1
    /\ MktRows[1].tgt = "BBB" /\ MktRows[2].tgt = "BBB"
    /\ MktRows[3].tgt = "CCC"
    /\ AretAt(1, "BBB") = Num(10) /\ AretAt(1, "CCC") = Num(30)
    /\ \E k \in DOMAIN MktOut :
          MktOut[k].date = 1 /\ MktOut[k].value = Num(<<50, 3>>)

\* the expanded rows whose (date, tgt) has a record in the aret table
MktMatchedRows ==
    SelectSeq(MktRows, LAMBDA e : HasAretRecord(e.date, e.tgt))

\* C12: an expanded row whose target has no abnormal-return record on its
\* date raises no error and adds nothing to any sum or count: the output is
\* the output for the table without those rows.
C12_UnmatchedRowsExcluded ==
    MktDone =>
        /\ buy_tgt_sell_mkt_rets.tag = "Series"
        /\ buy_tgt_sell_mkt_rets =
               mk_buy_tgt_sell_mkt_rets(Frame(MktMatchedRows), stk_arets)

\* a date with a matched row next to an unmatched one
C12_Witness ==
    /\ MktDone
    /\ \E i, j \in DOMAIN MktRows :
          /\ MktRows[i].date = MktRows[j].date
          /\ ~ HasAretRecord(MktRows[i].date, MktRows[i].tgt)
          /\ ~ IsNa(AretAt(MktRows[j].date, MktRows[j].tgt))
          /\ \E k \in DOMAIN MktOut : MktOut[k].date = MktRows[j].date

MktOutDates == {MktOut[k].date : k \in DOMAIN MktOut}

\* C13: a date is in the output of mk_buy_tgt_sell_mkt_rets exactly when at
\* least one expanded row of that date names a target with a non-missing
\* abnormal return on that date; every output date is a date of the
\* abnormal-return table.
C13_DateIffSomeMatch ==
    MktDone =>
        /\ buy_tgt_sell_mkt_rets.tag = "Series"
        /\ \A d \in Range(DatesOf(MktRows)) \cup Range(DatesOf(stk_arets))
                    \cup MktOutDates :
              d \in MktOutDates <=> MktTerms(d) # {}
        /\ MktOutDates \subseteq Range(DatesOf(stk_arets))

\* one date kept, another left out although the expanded table and the
\* abnormal-return table both hold it (its only matched aret is missing)
C13_Witness ==
    /\ MktDone
    /\ 1 \in MktOutDates
    /\ 2 \notin MktOutDates
    /\ \E i \in DOMAIN MktRows :
          MktRows[i].date = 2 /\ HasAretRecord(2, MktRows[i].tgt)

(***************************************************************************)
(* Properties shared by the two strategy series.                           *)
(***************************************************************************)
\* dates strictly ascending (so no date twice) and no NaN value
WellFormedSeries(ser) ==
    /\ ser.tag = "Series"
    /\ \A k \in 1..(Len(ser.rows) - 1) : ser.rows[k].date < ser.rows[k + 1].date
    /\ \A k \in DOMAIN ser.rows : ~ IsNa(ser.rows[k].value)

\* C14: the output of mk_buy_tgt_sell_acq_rets and the output of
\* mk_buy_tgt_sell_mkt_rets each have strictly ascending dates, no date
\* twice, and no missing value, whatever the order of the expanded rows.
C14_SeriesAscendingNoMissing ==
    /\ pc \in {"acq_done", "mkt_done"} => WellFormedSeries(buy_tgt_sell_acq_rets)
    /\ pc = "mkt_done" => WellFormedSeries(buy_tgt_sell_mkt_rets)

\* expanded rows given latest date first, repeated, and both series with
\* two dates
C14_Witness ==
    /\ pc = "mkt_done"
    /\ Len(MktRows) = 3
    /\ MktRows[1].date = 2 /\ MktRows[2].date = 1 /\ MktRows[3].date = 2
    /\ Len(buy_tgt_sell_acq_rets.rows) = 2
    /\ Len(buy_tgt_sell_mkt_rets.rows) = 2

\* C15: for an expanded table with its columns and no row,
\* mk_buy_tgt_sell_mkt_rets returns an empty series and raises nothing,
\* whatever the abnormal-return table holds.
C15_EmptyExpandedEmptySeries ==
    (MktDone /\ expanded_ma_info = Frame(<<>>)) =>
        buy_tgt_sell_mkt_rets = Series(<<>>)

\* the call made on a zero-row table and an abnormal-return table with rows
C15_Witness ==
    /\ MktDone
    /\ expanded_ma_info = Frame(<<>>)
    /\ \E k \in DOMAIN stk_arets : ~ IsNa(stk_arets[k].aret)
    /\ buy_tgt_sell_mkt_rets = Series(<<>>)

(***************************************************************************)
(* Properties of mk_tgt_rets_by_event_time.                                *)
(***************************************************************************)
PanelDone == pc = "panel_done"
PanelOut == tgt_rets_by_event_time
PanelRows == expanded_ma_info.rows

\* the return of a ticker on a date in the wide table; NaN when the table
\* has no such date or no such ticker
RetAt(date, ticker) ==
    IF date \in Range(stk_rets.index) /\ ticker \in Range(stk_rets.columns)
    THEN stk_rets.at[date][ticker]
    ELSE NaN

\* the rows (by position) of deal d that lie t days after their announcement
RowsAt(t, d) ==
    {i \in DOMAIN PanelRows :
        PanelRows[i].dealno = d
        /\ PanelRows[i].date - PanelRows[i].announcement = t}

\* those of them whose date and target ticker the return table holds
FoundAt(t, d) ==
    {i \in RowsAt(t, d) :
        PanelRows[i].date \in Range(stk_rets.index)
        /\ PanelRows[i].tgt \in Range(stk_rets.columns)}

LastOf(S) == CHOOSE i \in S : \A j \in S : j <= i

\* C16: cell (t, d) of the panel holds the return of the target of deal d on
\* the date of the expanded row of deal d for which date - announcement is
\* t days (the last such row, if the table repeats one); the event time is
\* computed from the two dates, not read from a column given with the table.
C16_CellIsTargetReturn ==
    PanelDone =>
        /\ PanelOut.tag = "DataFrame"
        /\ \A t \in Range(PanelOut.index), d \in Range(PanelOut.columns) :
              FoundAt(t, d) # {} =>
                  PanelOut.at[t][d] =
                      RetAt(PanelRows[LastOf(FoundAt(t, d))].date,
                            PanelRows[LastOf(FoundAt(t, d))].tgt)

\* a single row of deal 1, two days after the announcement although its
\* event_time column says 1: the return lands in cell (2, 1)
C16_Witness ==
    /\ PanelDone
    /\ \E i \in DOMAIN PanelRows :
          /\ PanelRows[i].dealno = 1 /\ PanelRows[i].date = 2
          /\ PanelRows[i].announcement = 0 /\ PanelRows[i].event_time = 1
          /\ RowsAt(2, 1) = {i}
    /\ PanelOut.at[2][1] = Num(30)

\* C17: an expanded row whose date is not in the index of the return table,
\* or whose target ticker is not among its columns, raises no error and
\* leaves its cell missing; a cell no expanded row stands for is missing.
C17_AbsentKeysLeaveMissing ==
    PanelDone =>
        /\ PanelOut.tag = "DataFrame"
        /\ \A t \in Range(PanelOut.index), d \in Range(PanelOut.columns) :
              FoundAt(t, d) = {} => IsNa(PanelOut.at[t][d])

\* a row with a date the table lacks, a row with a ticker the table lacks,
\* and a cell without any row, next to a cell that is filled
C17_Witness ==
    /\ PanelDone
    /\ \E i \in DOMAIN PanelRows :
          PanelRows[i].date \notin Range(stk_rets.index)
          /\ PanelRows[i].tgt \in Range(stk_rets.columns)
    /\ \E i \in DOMAIN PanelRows :
          PanelRows[i].date \in Range(stk_rets.index)
          /\ PanelRows[i].tgt \notin Range(stk_rets.columns)
    /\ \E t \in Range(PanelOut.index), d \in Range(PanelOut.columns) :
          RowsAt(t, d) = {}
    /\ \E t \in Range(PanelOut.index), d \in Range(PanelOut.columns) :
          ~ IsNa(PanelOut.at[t][d])

\* C18: the row keys of the panel are exactly the distinct event times of
\* the expanded rows and its column keys exactly their distinct deal
\* numbers, those whose cells are all missing included; the rows are in
\* ascending event time and no key occurs twice.
C18_PanelKeys ==
    PanelDone =>
        /\ PanelOut.tag = "DataFrame"
        /\ Range(PanelOut.index) =
               {PanelRows[i].date - PanelRows[i].announcement :
                   i \in DOMAIN PanelRows}
        /\ Range(PanelOut.columns) =
               {PanelRows[i].dealno : i \in DOMAIN PanelRows}
        /\ \A k \in 1..(Len(PanelOut.index) - 1) :
              PanelOut.index[k] < PanelOut.index[k + 1]
        /\ \A j, k \in DOMAIN PanelOut.columns :
              PanelOut.columns[j] = PanelOut.columns[k] => j = k
        /\ DOMAIN PanelOut.at = Range(PanelOut.index)
        /\ \A t \in Range(PanelOut.index) :
              DOMAIN PanelOut.at[t] = Range(PanelOut.columns)

\* event times first seen in descending order, and a deal and an event time
\* whose cells are all missing
C18_Witness ==
    /\ PanelDone
    /\ Len(PanelRows) = 3
    /\ PanelRows[1].date - PanelRows[1].announcement
           > PanelRows[2].date - PanelRows[2].announcement
    /\ \E d \in Range(PanelOut.columns) :
          \A t \in Range(PanelOut.index) : IsNa(PanelOut.at[t][d])
    /\ \E t \in Range(PanelOut.index) :
          \A d \in Range(PanelOut.columns) : IsNa(PanelOut.at[t][d])
    /\ \E t \in Range(PanelOut.index), d \in Range(PanelOut.columns) :
          ~ IsNa(PanelOut.at[t][d])

\* the panel made of the row of event time t alone
OneRowPanel(t) ==
    [index |-> <<t>>, columns |-> tgt_rets_by_event_time.columns,
     at |-> [u \in {t} |-> PanelRow(t)]]

\* C19: mk_prop_positive_tgt_rets raises no division error: the proportion
\* of an event time whose denominator is zero is missing, and every other
\* event time has the finite proportion it has in a panel of its own.
C19_ZeroDenominatorMissing ==
    PropDone =>
        /\ DOMAIN sample_proportions = PanelTimes
        /\ \A t \in PanelTimes :
              /\ denominator[t] = 0 => IsNa(sample_proportions[t])
              /\ denominator[t] # 0 =>
                    /\ ~ IsNa(sample_proportions[t])
                    /\ sample_proportions[t][1][2] # 0
                    /\ sample_proportions[t] =
                           mk_prop_positive_tgt_rets(OneRowPanel(t))[t]

\* one event time with nothing but missing cells next to one with a
\* proportion of 1/2
C19_Witness ==
    /\ PropDone
    /\ \E t, u \in PanelTimes :
          /\ Present(PanelRow(t)) = {}
          /\ denominator[t] = 0
          /\ IsNa(sample_proportions[t])
          /\ sample_proportions[u] = Num(<<1, 2>>)

(***************************************************************************)
(* Properties of mk_ma_info.                                               *)
(***************************************************************************)
MaInfoDone == pc = "ma_info_done"

\* the deal numbers that have a record of the given role
DealsWithRole(ft) ==
    {ma_deals[i].dealno : i \in {k \in DOMAIN ma_deals :
                                    ma_deals[k].firmtype = ft}}

MaInfoDeals == {ma_info.rows[i].dealno : i \in DOMAIN ma_info.rows}

\* C20: the deal numbers of the output of mk_ma_info are exactly those with
\* at least one 'acq' record and at least one 'tgt' record in the raw
\* table, and every output row has both tickers.
C20_DealsWithBothRoles ==
    MaInfoDone =>
        /\ MaInfoDeals = DealsWithRole("acq") \cap DealsWithRole("tgt")
        /\ \A i \in DOMAIN ma_info.rows :
              ma_info.rows[i].acq \in {"AAA", "BBB"}
              /\ ma_info.rows[i].tgt \in {"AAA", "BBB"}

\* the output rows of a deal number
MaInfoRowsOf(d) == {i \in DOMAIN ma_info.rows : ma_info.rows[i].dealno = d}

\* C21: the output of mk_ma_info has one row per deal: no deal number is in
\* two output rows, so the output rows of an announcement date are no more
\* than the distinct deal numbers of the raw records of that date.
C21_OneRowPerDeal ==
    MaInfoDone =>
        /\ \A d \in MaInfoDeals : Cardinality(MaInfoRowsOf(d)) = 1
        /\ \A a \in {ma_info.rows[i].announcement : i \in DOMAIN ma_info.rows} :
              Cardinality({i \in DOMAIN ma_info.rows :
                              ma_info.rows[i].announcement = a})
              <= Cardinality({ma_deals[k].dealno :
                                 k \in {j \in DOMAIN ma_deals :
                                     ParseDt(ma_deals[j].announcement) = a}})

(***************************************************************************)
(* Properties of mk_stk_arets.                                             *)
(***************************************************************************)
AretsDone == pc = "acq" /\ expanded_ma_info = Unset

\* the rows (by position) of the long table for a date and a ticker
AretRowsOf(d, t) ==
    {k \in DOMAIN stk_arets : stk_arets[k].date = d /\ stk_arets[k].ticker = t}

\* the (date, ticker) cells of the return table that hold a return on a
\* date of the factor table
AretCellsInBoth ==
    {c \in Range(stk_rets.index) \X Range(stk_rets.columns) :
        ~ IsNa(stk_rets.at[c[1]][c[2]]) /\ c[1] \in Range(org_ff.index)}

\* the cells of AretCellsInBoth whose date has both factors
AretCellsWithFactors ==
    {c \in AretCellsInBoth :
        ~ IsNa(org_ff.at[c[1]].MktRF) /\ ~ IsNa(org_ff.at[c[1]].RF)}

\* C22 as stated: mk_stk_arets returns exactly one row for each non-missing
\* cell of the return table whose date is in the factor table and no other
\* row.
C22_OneRowPerCellInBoth ==
    AretsDone =>
        /\ \A c \in AretCellsInBoth : Cardinality(AretRowsOf(c[1], c[2])) = 1
        /\ \A k \in DOMAIN stk_arets :
              <<stk_arets[k].date, stk_arets[k].ticker>> \in AretCellsInBoth

\* C22 amended: mk_stk_arets returns exactly one row for each non-missing
\* cell of the return table whose date is in the factor table with both
\* factors present, its aret the return less Mkt-RF + RF of the date, and no
\* other row: a return date the factor table lacks, a factor date the return
\* table lacks and a date with a missing factor yield no row.
C22_OneRowPerCellWithFactors ==
    AretsDone =>
        /\ \A c \in AretCellsWithFactors :
              /\ Cardinality(AretRowsOf(c[1], c[2])) = 1
              /\ \A k \in AretRowsOf(c[1], c[2]) :
                    stk_arets[k].aret =
                        Num(stk_rets.at[c[1]][c[2]][1]
                            - (org_ff.at[c[1]].MktRF[1] + org_ff.at[c[1]].RF[1]))
        /\ \A k \in DOMAIN stk_arets :
              <<stk_arets[k].date, stk_arets[k].ticker>> \in AretCellsWithFactors

\* a return date without factors, a factor date without returns, and a row
\* with aret 10 - (4 + 1)
C22_Witness ==
    /\ AretsDone
    /\ stk_rets.index = <<1, 2>>
    /\ Range(org_ff.index) = {0, 1}
    /\ \E k \in DOMAIN stk_arets :
          stk_arets[k].date = 1 /\ stk_arets[k].aret = Num(5)
    /\ \E t \in Range(stk_rets.columns) : ~ IsNa(stk_rets.at[2][t])
    /\ \A k \in DOMAIN stk_arets : stk_arets[k].date = 1

(***************************************************************************)
(* Properties of wide_to_long_rets.                                        *)
(***************************************************************************)
LongDone == pc = "long_done"

\* the rows (by position) of the long table for a date and a ticker
LongRowsOf(d, t) ==
    {k \in DOMAIN long_rets : long_rets[k].date = d /\ long_rets[k].ticker = t}

\* the long table pivoted back: the cell of (d, t), missing without a row
PivotBack(d, t) ==
    IF LongRowsOf(d, t) = {} THEN NaN
    ELSE Num(long_rets[CHOOSE k \in LongRowsOf(d, t) : TRUE].ret)

\* C23: wide_to_long_rets returns exactly one row for each non-missing cell
\* of the wide table, with the date, the ticker label and the value of the
\* cell, and no row for a missing cell; pivoting the long table back by
\* (date, ticker) gives every cell of the wide table again.
C23_OneRowPerNonMissingCell ==
    LongDone =>
        /\ \A d \in Range(stk_rets.index), t \in Range(stk_rets.columns) :
              /\ Cardinality(LongRowsOf(d, t)) =
                     (IF IsNa(stk_rets.at[d][t]) THEN 0 ELSE 1)
              /\ PivotBack(d, t) = stk_rets.at[d][t]
        /\ \A k \in DOMAIN long_rets :
              /\ long_rets[k].date \in Range(stk_rets.index)
              /\ long_rets[k].ticker \in Range(stk_rets.columns)

\* a table with a missing cell and a return under the label that is not
\* normalised
C23_Witness ==
    /\ LongDone
    /\ Len(stk_rets.index) = 2
    /\ IsNa(stk_rets.at[1]["AAA"])
    /\ stk_rets.at[1][" bbb"] = Num(10)
    /\ \E k \in DOMAIN long_rets :
          long_rets[k].date = 1 /\ long_rets[k].ticker = " bbb" /\ long_rets[k].ret = 10
    /\ Len(long_rets) = 3

(***************************************************************************)
(* Properties of the run of main().                                        *)
(***************************************************************************)
\* the deal table has rows and no window of days 1..30 after an
\* announcement holds a valid date
MainNoMatch ==
    /\ events # <<>>
    /\ \A i \in DOMAIN events, d \in Range(valid_dates) :
          ~ (d - events[i].announcement \in td_start..td_end)

\* C24: when no deal's window of days 1..30 meets the valid dates, the run
\* of main() does not abort: expand_event_dates and every stage after it
\* ends with a valid, empty output.
C24_NoMatchDoesNotAbort ==
    MainNoMatch => pc # "main_aborted"

(***************************************************************************)
(* The two empty outcomes of expand_event_dates.                           *)
(***************************************************************************)
\* C25: the result of expand_event_dates for a deal table with rows none of
\* whose windows meets the valid dates differs from its result for a deal
\* table without rows, so that a caller can tell the two apart.
C25_NoMatchDiffersFromZeroDeals ==
    (Expanded /\ events # <<>> /\ ~ \E i \in DOMAIN events : HasWindow(events[i]))
        => expanded_ma_info # expand_event_dates(<<>>, valid_dates)

RowOrders(s) ==
    {[i \in DOMAIN s |-> s[f[i]]] :
        f \in {g \in [DOMAIN s -> DOMAIN s] :
                  \A i, j \in DOMAIN s : g[i] = g[j] => i = j}}

\* the outputs of the stages for the deal rows p, as records
StagesOn(p) ==
    LET expanded == expand_event_dates(p, valid_dates)
    IN  [expanded |-> expanded,
         acq |-> mk_buy_tgt_sell_acq_rets(expanded, stk_rets),
         mkt |-> mk_buy_tgt_sell_mkt_rets(expanded, stk_arets),
         panel |-> mk_tgt_rets_by_event_time(stk_rets, expanded)]

\* the expanded rows as a set and the two series of p are those of the run
SameRowsAndSeries(p) ==
    /\ StagesOn(p).expanded.tag = expanded_ma_info.tag
    /\ Range(StagesOn(p).expanded.rows) = Range(expanded_ma_info.rows)
    /\ StagesOn(p).acq = buy_tgt_sell_acq_rets
    /\ StagesOn(p).mkt = buy_tgt_sell_mkt_rets

\* same row keys in the same order, same column keys, same cells
SamePanelCells(a, b) ==
    /\ a.index = b.index
    /\ Range(a.columns) = Range(b.columns)
    /\ \A t \in Range(a.index), d \in Range(a.columns) : a.at[t][d] = b.at[t][d]

\* C27 as stated: with unique dealno, the deal rows in any order give the
\* same set of expanded rows, the same two strategy series and the same
\* event-time panel.
C27_DealOrderSamePanel ==
    (pc = "main_done" /\ UniqueDealno) =>
        \A p \in RowOrders(events) :
            /\ SameRowsAndSeries(p)
            /\ StagesOn(p).panel = tgt_rets_by_event_time

\* C27 amended: with unique dealno, the deal rows in any order give the same
\* set of expanded rows, the same two strategy series and a panel with the
\* same row keys in the same order, the same column keys and the same
\* cells; the order of the panel's columns follows the order of the deals.
C27_DealOrderSameCells ==
    (pc = "main_done" /\ UniqueDealno) =>
        \A p \in RowOrders(events) :
            /\ SameRowsAndSeries(p)
            /\ SamePanelCells(StagesOn(p).panel, tgt_rets_by_event_time)

\* two deals with different windows, both series with two dates, and a
\* panel with a return for each deal
C27_Witness ==
    /\ pc = "main_done"
    /\ UniqueDealno
    /\ Len(events) = 2
    /\ events[1].announcement > events[2].announcement
    /\ Len(buy_tgt_sell_acq_rets.rows) = 2
    /\ Len(buy_tgt_sell_mkt_rets.rows) = 2
    /\ \A d \in Range(tgt_rets_by_event_time.columns) :
          \E t \in Range(tgt_rets_by_event_time.index) :
              ~ IsNa(tgt_rets_by_event_time.at[t][d])

(***************************************************************************)
(* The panel of the composed run.                                          *)
(***************************************************************************)
MainPanelDone == pc \in {"main_prop", "main_done"}

\* C28: when the panel is built from the output of expand_event_dates, the
\* valid dates being the index of the return table, every row key of the
\* panel is an event time from 1 to 30, so the panel has at most 30 rows,
\* and every expanded date is in the index of the return table.
C28_PanelKeysWithinWindow ==
    MainPanelDone =>
        /\ tgt_rets_by_event_time.tag = "DataFrame"
        /\ \A t \in Range(tgt_rets_by_event_time.index) :
              t \in td_start..td_end
        /\ Len(tgt_rets_by_event_time.index) <= td_end
        /\ \A i \in DOMAIN expanded_ma_info.rows :
              expanded_ma_info.rows[i].date \in Range(stk_rets.index)

\* a return table with every day of the window: the panel has all 30 rows,
\* the first for event time 1 and the last for event time 30
C28_Witness ==
    /\ MainPanelDone
    /\ Len(tgt_rets_by_event_time.index) = td_end
    /\ tgt_rets_by_event_time.index[1] = td_start
    /\ tgt_rets_by_event_time.index[td_end] = td_end
    /\ Len(stk_rets.index) > td_end

(***************************************************************************)
(* The dates of the output of mk_buy_tgt_sell_acq_rets.                    *)
(***************************************************************************)
AcqOutDates == {AcqOut[k].date : k \in DOMAIN AcqOut}

\* C29: a date is in the output of mk_buy_tgt_sell_acq_rets exactly when, on
\* that date, some expanded row has a target with a return and some expanded
\* row has an acquirer with a return; a date with matches on one side only
\* is dropped, although the expanded table and the return table both hold
\* it.
C29_DateIffBothSidesMatch ==
    AcqDone =>
        /\ buy_tgt_sell_acq_rets.tag = "Series"
        /\ \A d \in ExpandedDates \cup Range(stk_rets.index) \cup AcqOutDates :
              d \in AcqOutDates
                  <=> (Len(SideReturns(d, "tgt")) > 0
                       /\ Len(SideReturns(d, "acq")) > 0)

\* a date of both tables with a target return and no acquirer return, left
\* out, beside a date that is kept
C29_Witness ==
    /\ AcqDone
    /\ \E d \in ExpandedDates \cap Range(stk_rets.index) :
          /\ Len(SideReturns(d, "tgt")) > 0
          /\ Len(SideReturns(d, "acq")) = 0
          /\ d \notin AcqOutDates
    /\ AcqOutDates # {}

(***************************************************************************)
(* Range of the proportions.                                               *)
(***************************************************************************)
\* the deals whose cell of the row the denominator counts
Counted(row) == {c \in Present(row) : row[c][1] # 0}

=============================================================================
